---- MODULE Spec2Model ----
(***************************************************************************)
(* A model of mogreps_utils.py: the filename parser get_info, the level    *)
(* selector get_ground_level and the pairing driver get_uk_global_pairs.   *)
(*                                                                         *)
(* Python strings are sequences of one-character strings, so that split,   *)
(* int and format are computed character by character.  An exception is    *)
(* the name of its class.                                                  *)
(***************************************************************************)
EXTENDS Integers, Sequences, FiniteSets, TLC

VARIABLES
    fname,      \* the regional filename in hand (get_info's argument)
    info,       \* the outcome of get_info(fname): a value or an exception class
    g_fname,    \* line 104: the global filename derived from info
    cube,       \* get_ground_level run on its own: the argument
    ground,     \* get_ground_level run on its own: the outcome
    uk_files,   \* get_uk_global_pairs: the regional filenames, in order
    g_files,    \* get_uk_global_pairs: the global filenames
    idx,        \* how many regional filenames the loop has taken
    pc,         \* the line get_uk_global_pairs is at
    g_cubes,    \* line 108: the loaded global cubes
    uk_cubes,   \* line 109: the loaded regional cubes
    uk_cube,    \* the regional cube in hand
    g_cube,     \* the global cube in hand
    uk_unrotate,\* line 122: the reprojected regional cube
    g_cube_uk,  \* line 123: the cropped global cube
    uks,        \* the regional output list
    gs,         \* the global output list
    loads,      \* every iris.load so far, in order
    raised,     \* the exception class the call ended with, or "none"
    failure     \* the latest exception raised: where, its class, for which file

parse == <<fname, info, g_fname>>
level == <<cube, ground>>
driver == <<uk_files, g_files, idx, pc, g_cubes, uk_cubes, uk_cube, g_cube,
            uk_unrotate, g_cube_uk, uks, gs, loads, raised, failure>>

vars == <<parse, level, driver>>

----------------------------------------------------------------------------
(* Python strings *)

Digits == <<"0", "1", "2", "3", "4", "5", "6", "7", "8", "9">>

IsDigit(c) == \E d \in 1..10 : Digits[d] = c

DigitVal(c) == (CHOOSE d \in 1..10 : Digits[d] = c) - 1

\* str.split(sep) for a one-character separator: never an empty list.
RECURSIVE Split(_, _)
Split(s, sep) ==
    IF \A k \in 1..Len(s) : s[k] # sep
    THEN <<s>>
    ELSE LET k == CHOOSE k \in 1..Len(s) :
                      s[k] = sep /\ \A j \in 1..(k - 1) : s[j] # sep
         IN  <<SubSeq(s, 1, k - 1)>> \o Split(SubSeq(s, k + 1, Len(s)), sep)

\* str.strip() as int() applies it (the model's only whitespace is " ").
RECURSIVE Strip(_)
Strip(s) ==
    IF s = <<>> THEN s
    ELSE IF Head(s) = " " THEN Strip(Tail(s))
    ELSE IF s[Len(s)] = " " THEN Strip(SubSeq(s, 1, Len(s) - 1))
    ELSE s

RECURSIVE DecVal(_)
DecVal(s) == IF s = <<>> THEN 0
             ELSE 10 * DecVal(SubSeq(s, 1, Len(s) - 1)) + DigitVal(s[Len(s)])

\* The part of an integer literal after whitespace and sign are removed.
Unsigned(s) ==
    LET t == Strip(s)
    IN  IF t # <<>> /\ Head(t) \in {"-", "+"} THEN Tail(t) ELSE t

\* int(s) succeeds: optional whitespace around an optional sign and one or
\* more decimal digits; anything else raises ValueError.
IntParses(s) ==
    /\ Unsigned(s) # <<>>
    /\ \A k \in 1..Len(Unsigned(s)) : IsDigit(Unsigned(s)[k])

\* int(s) for a string that parses.
PyInt(s) ==
    LET t == Strip(s)
    IN  IF Head(t) = "-" THEN 0 - DecVal(Unsigned(s)) ELSE DecVal(Unsigned(s))

----------------------------------------------------------------------------
(* get_info *)

Ok(v) == [kind |-> "ok", val |-> v]
Raise(class) == [kind |-> class, val |-> <<>>]
NotCalled == [kind |-> "none", val |-> <<>>]

\* Lines 30-31: split at "_", then cut the last segment at its first ".".
Segs(name) ==
    LET segs == Split(name, "_")
        n == Len(segs)
    IN  [segs EXCEPT ![n] = Split(segs[n], ".")[1]]

\* A mis-indexed variant: the date taken from the segment after the right one.
get_info_off_by_one(name) ==
    LET segs == Segs(name)
        n == Len(segs)
    IN  IF n < 4 THEN Raise("IndexError")
        ELSE IF \E k \in (n - 2)..n : ~IntParses(segs[k]) THEN Raise("ValueError")
        ELSE Ok(<<segs[n - 2], PyInt(segs[n - 2]), PyInt(segs[n - 1]), PyInt(segs[n])>>)

\* A variant that checks the segment count after converting the integers.
get_info_late_index(name) ==
    LET segs == Segs(name)
        n == Len(segs)
        from == IF n < 3 THEN 1 ELSE n - 2
    IN  IF \E k \in from..n : ~IntParses(segs[k]) THEN Raise("ValueError")
        ELSE IF n < 4 THEN Raise("IndexError")
        ELSE Ok(<<segs[n - 3], PyInt(segs[n - 2]), PyInt(segs[n - 1]), PyInt(segs[n])>>)

\* Line 32: segs[-4] is evaluated first (IndexError when there are fewer than
\* four segments), then int() on each of segs[-3:] (ValueError).
get_info(name) ==
    LET segs == Segs(name)
        n == Len(segs)
    IN  IF n < 4 THEN Raise("IndexError")
        ELSE IF \E k \in (n - 2)..n : ~IntParses(segs[k]) THEN Raise("ValueError")
        ELSE Ok(<<segs[n - 3], PyInt(segs[n - 2]), PyInt(segs[n - 1]), PyInt(segs[n])>>)

----------------------------------------------------------------------------
(* Line 104: the name of the matching global file *)

RECURSIVE DecStr(_)
\* str(n) for n >= 0.
DecStr(n) == IF n < 10 THEN <<Digits[n + 1]>>
             ELSE DecStr(n \div 10) \o <<Digits[(n % 10) + 1]>>

RECURSIVE Zeros(_)
Zeros(k) == IF k <= 0 THEN <<>> ELSE <<"0">> \o Zeros(k - 1)

\* '{:0<width>d}'.format(n): the sign, then zeros, then the digits; the
\* sign counts towards the minimum width, and nothing is ever cut.
PyFormat0(n, width) ==
    LET sign == IF n < 0 THEN <<"-">> ELSE <<>>
        digits == DecStr(IF n < 0 THEN 0 - n ELSE n)
    IN  sign \o Zeros(width - Len(sign) - Len(digits)) \o digits

HourShift == 3
LeadShift == 3
HourWidth == 2
MemberWidth == 2
LeadWidth == 3

GlobalPrefix ==
    <<"p","r","o","d","s","_","o","p","_","m","o","g","r","e","p","s","-","g","_">>

NcSuffix == <<".","n","c">>

\* Line 104, for info = [date, run hour, member, lead].
GlobalName(i) ==
    GlobalPrefix \o i[1] \o <<"_">> \o PyFormat0(i[2] - HourShift, HourWidth)
        \o <<"_">> \o PyFormat0(i[3], MemberWidth)
        \o <<"_">> \o PyFormat0(i[4] + LeadShift, LeadWidth) \o NcSuffix

----------------------------------------------------------------------------
(* The filenames the parser is run on *)

MaxParts == 5
MaxHour == 23
MaxMember == 2
MaxLead == 3

\* Underscore-free pieces: empty, a word, a zero-padded number, a signed
\* number, a number with an extension, a number in blanks, a dotted word.
PartPool ==
    { <<>>, <<"x">>, <<"0","6">>, <<"-","1">>, <<"3",".","n","c">>,
      <<" ","2"," ">>, <<"x",".","7">> }

\* The digit string of exactly w digits whose value is n (0 <= n < 10^w).
PadDigits(n, w) == [k \in 1..w |-> Digits[((n \div (10 ^ (w - k))) % 10) + 1]]

UkPrefix ==
    <<"p","r","o","d","s","_","o","p","_","m","o","g","r","e","p","s","-","u","k","_">>

Date0 == <<"2","0","1","6","0","1","0","7">>

\* A regional file named by the convention {prefix}_op_{product}_{date}_{HH}_{MM}_{LLL}.nc
UkName(date, h, m, l) ==
    UkPrefix \o date \o <<"_">> \o PadDigits(h, 2) \o <<"_">> \o PadDigits(m, 2)
        \o <<"_">> \o PadDigits(l, 3) \o NcSuffix

RegionalNames ==
    { UkName(Date0, h, m, l) : h \in 0..MaxHour, m \in 0..MaxMember, l \in 0..MaxLead }

\* The docstring's example, 'prods_op_mogreps-g_20160107_00_00_003.nc'.
DocExample == GlobalPrefix \o Date0 \o <<"_","0","0","_","0","0","_","0","0","3">> \o NcSuffix

\* The names a run starts from; AppendPart lengthens the short ones.
InfoInputs == PartPool \cup RegionalNames \cup {DocExample}

NoCube == [coords |-> <<>>, levels |-> <<>>]
NoGround == [kind |-> "none", cube |-> NoCube, name |-> <<"None">>]

\* A cube of the pairing driver: its name, its vertical structure (the cube
\* get_ground_level sees), the points of its time coordinate (none: it has no
\* time coordinate), whether it carries grid_latitude and grid_longitude, and
\* what coord_system() returns.
PyNoneCube ==
    [name |-> "None", field |-> NoCube, times |-> <<>>, hasGrid |-> FALSE, cs |-> "None"]

NoFailure == [at |-> "none", class |-> "none", src |-> 0]

\* get_uk_global_pairs is not running.
DriverIdle ==
    /\ uk_files = <<>>
    /\ g_files = {}
    /\ idx = 0
    /\ pc = "idle"
    /\ g_cubes = <<>>
    /\ uk_cubes = <<>>
    /\ uk_cube = PyNoneCube
    /\ g_cube = PyNoneCube
    /\ uk_unrotate = PyNoneCube
    /\ g_cube_uk = PyNoneCube
    /\ uks = <<>>
    /\ gs = <<>>
    /\ loads = <<>>
    /\ raised = "none"
    /\ failure = NoFailure

InitInfo ==
    /\ fname \in InfoInputs
    /\ info = NotCalled
    /\ g_fname = <<>>
    /\ cube = NoCube
    /\ ground = NoGround
    /\ DriverIdle

\* The caller's filename: up to MaxParts pieces joined by "_".
AppendPart ==
    /\ info.kind = "none"
    /\ Cardinality({ p \in 1..Len(fname) : fname[p] = "_" }) + 1 < MaxParts
    /\ \E part \in PartPool : fname' = fname \o <<"_">> \o part
    /\ UNCHANGED <<info, g_fname, level, driver>>

\* Line 102: info = get_info(fname).
CallGetInfo ==
    /\ info.kind = "none"
    /\ info' = get_info(fname)
    /\ UNCHANGED <<fname, g_fname, level, driver>>

\* Line 104: reached only when get_info returned.
FormatGlobalName ==
    /\ info.kind = "ok"
    /\ g_fname = <<>>
    /\ g_fname' = GlobalName(info.val)
    /\ UNCHANGED <<fname, info, level, driver>>

NextInfo == AppendPart \/ CallGetInfo \/ FormatGlobalName

SpecInfo == InitInfo /\ [][NextInfo]_vars

----------------------------------------------------------------------------
(* Properties of get_info and of the derived global name *)

\* The underscore-delimited fields of a name, counted from the right by the
\* positions of its underscores.
Underscores(s) == { p \in 1..Len(s) : s[p] = "_" }

NFields(s) == Cardinality(Underscores(s)) + 1

KthLastUnderscore(s, k) ==
    CHOOSE p \in Underscores(s) : Cardinality({ q \in Underscores(s) : q > p }) = k - 1

FieldFromRight(s, k) ==
    LET lo == IF k <= Cardinality(Underscores(s)) THEN KthLastUnderscore(s, k) ELSE 0
        hi == IF k = 1 THEN Len(s) + 1 ELSE KthLastUnderscore(s, k - 1)
    IN  SubSeq(s, lo + 1, hi - 1)

\* A field without its extension: what precedes its first ".".
StripExt(s) ==
    IF \E p \in 1..Len(s) : s[p] = "."
    THEN SubSeq(s, 1, (CHOOSE p \in 1..Len(s) :
                          s[p] = "." /\ \A q \in 1..(p - 1) : s[q] # ".") - 1)
    ELSE s

LastThreeParse(s) ==
    /\ IntParses(StripExt(FieldFromRight(s, 1)))
    /\ IntParses(FieldFromRight(s, 2))
    /\ IntParses(FieldFromRight(s, 3))

Called == info.kind # "none"

\* C1: for a filename with at least 4 underscore-delimited segments whose
\* last three (the final one without its extension) parse as integers,
\* get_info returns the 4th-from-last segment unchanged and the three integer
\* values; the docstring's example gives ('20160107', 0, 0, 3), and a name
\* written by the convention gives the date and the numbers it was written
\* from.
C1_ParsesTrailingFields ==
    /\ (Called /\ NFields(fname) >= 4 /\ LastThreeParse(fname))
          => info = Ok(<<FieldFromRight(fname, 4),
                         PyInt(FieldFromRight(fname, 3)),
                         PyInt(FieldFromRight(fname, 2)),
                         PyInt(StripExt(FieldFromRight(fname, 1)))>>)
    /\ (Called /\ fname = DocExample) => info = Ok(<<Date0, 0, 0, 3>>)
    /\ (Called /\ fname \in RegionalNames)
          => /\ info.kind = "ok"
             /\ info.val[1] = Date0
             /\ info.val[2] \in 0..MaxHour
             /\ info.val[3] \in 0..MaxMember
             /\ info.val[4] \in 0..MaxLead
             /\ fname = UkName(info.val[1], info.val[2], info.val[3], info.val[4])

\* C1's case: the docstring's example has been parsed.
C1_Witness == fname = DocExample /\ info.kind = "ok" /\ info.val[4] = 3

\* The failure class of the shortest malformed name, the empty string.
FormatError == get_info(<<>>).kind

Malformed(s) == NFields(s) < 4 \/ ~LastThreeParse(s)

\* C2 as stated: every malformed filename (fewer than 4 segments, or one of
\* the last three segments not an integer) fails with one and the same
\* failure class.
C2_OneFailureClass ==
    (Called /\ Malformed(fname)) => info.kind = FormatError

\* C2 as the code has it: get_info returns no value for a malformed
\* filename; it raises IndexError when there are fewer than 4 segments, and
\* ValueError when there are at least 4 and one of the last three is not an
\* integer.
C2_TwoFailureClasses ==
    /\ (Called /\ NFields(fname) < 4) => info.kind = "IndexError"
    /\ (Called /\ NFields(fname) >= 4 /\ ~LastThreeParse(fname))
          => info.kind = "ValueError"

\* C2's case: a name of four or more segments has failed on a segment that
\* is no integer.
C2_Witness == NFields(fname) >= 4 /\ ~LastThreeParse(fname) /\ info.kind = "ValueError"

\* C3 as stated: for a regional filename with run hour H in 0..23, member M
\* and lead L, the global filename is the prefix, the date, H-3 as exactly
\* two digits, M as exactly two digits and L+3 as exactly three digits.
C3_TwoDigitHour ==
    (/\ g_fname # <<>>
     /\ fname \in RegionalNames
     /\ info.val[2] \in 0..23
     /\ info.val[3] \in 0..99
     /\ info.val[4] \in 0..996)
        => g_fname = GlobalPrefix \o info.val[1]
                        \o <<"_">> \o PadDigits(info.val[2] - HourShift, 2)
                        \o <<"_">> \o PadDigits(info.val[3], 2)
                        \o <<"_">> \o PadDigits(info.val[4] + LeadShift, 3)
                        \o NcSuffix

\* What the code does give: the stated name for every run hour from 3 up,
\* and a signed one-digit hour field ("-3", "-2", "-1") for run hours 0..2.
C3_FromHourThree ==
    /\ (/\ g_fname # <<>>
        /\ info.val[2] \in 3..23
        /\ info.val[3] \in 0..99
        /\ info.val[4] \in 0..996)
           => g_fname = GlobalPrefix \o info.val[1]
                           \o <<"_">> \o PadDigits(info.val[2] - HourShift, 2)
                           \o <<"_">> \o PadDigits(info.val[3], 2)
                           \o <<"_">> \o PadDigits(info.val[4] + LeadShift, 3)
                           \o NcSuffix
    /\ (g_fname # <<>> /\ info.val[2] \in 0..2)
           => FieldFromRight(g_fname, 3)
                 = <<"-", Digits[(HourShift - info.val[2]) + 1]>>

----------------------------------------------------------------------------
(* Cubes *)

(***************************************************************************)
(* A cube is its coordinates, in the order cube.coords() yields them, and  *)
(* the levels of its vertical dimension that its data still holds.  A      *)
(* coordinate either lies along the vertical dimension (onZ, one point per *)
(* level) or is scalar (one point).  NoCube stands for Python's None.      *)
(***************************************************************************)

PyNone == <<"None">>

Height == <<"h","e","i","g","h","t">>
Pressure == <<"p","r","e","s","s","u","r","e">>

StartsWith(s, prefix) ==
    Len(s) >= Len(prefix) /\ SubSeq(s, 1, Len(prefix)) = prefix

\* re.match(prefix + '.*', s).group(0): "." stops at a line break.
RECURSIVE Group0(_)
Group0(s) == IF s = <<>> \/ Head(s) = "\n" THEN <<>>
             ELSE <<Head(s)>> \o Group0(Tail(s))

\* The positions of the coordinates whose name the pattern matches.
Matching(c, prefix) ==
    { k \in 1..Len(c.coords) : StartsWith(c.coords[k].name, prefix) }

Named(c, name) == { k \in 1..Len(c.coords) : c.coords[k].name = name }

SetMin(S) == CHOOSE x \in S : \A y \in S : x <= y
SetMax(S) == CHOOSE x \in S : \A y \in S : x >= y

Points(coord) == { coord.points[k] : k \in 1..Len(coord.points) }

RECURSIVE Keep(_, _)
\* The positions of points (in order) that hold the value v.
Keep(points, v) ==
    IF points = <<>> THEN <<>>
    ELSE LET rest == Keep(SubSeq(points, 1, Len(points) - 1), v)
         IN  IF points[Len(points)] = v THEN Append(rest, Len(points)) ELSE rest

\* cube.extract(iris.Constraint(**{name: v})): None when no point of the
\* coordinate holds v; a scalar coordinate leaves the cube whole; a
\* coordinate along the vertical dimension cuts that dimension, and every
\* coordinate on it, to the levels holding v (one level left: the dimension
\* is gone and its coordinates are scalar).
Extract(c, name, v) ==
    IF Named(c, name) = {} THEN NoCube
    ELSE LET k == CHOOSE k \in Named(c, name) : TRUE
             co == c.coords[k]
             kept == Keep(co.points, v)
         IN  IF kept = <<>> THEN NoCube
             ELSE IF ~co.onZ THEN c
             ELSE [coords |->
                      [j \in 1..Len(c.coords) |->
                          IF c.coords[j].onZ
                          THEN [name |-> c.coords[j].name,
                                onZ |-> Len(kept) > 1,
                                points |-> [i \in 1..Len(kept) |->
                                               c.coords[j].points[kept[i]]]]
                          ELSE c.coords[j]],
                   levels |-> [i \in 1..Len(kept) |-> c.levels[kept[i]]]]

----------------------------------------------------------------------------
(* get_ground_level *)

GroundOk(c, name) == [kind |-> "ok", cube |-> c, name |-> name]
GroundRaise(class) == [kind |-> class, cube |-> NoCube, name |-> PyNone]

\* Lines 43-47 and 51-55: every matching coordinate overwrites name and
\* vert_coord, so the loop ends holding the last match; cube.coord(name)
\* raises unless exactly one coordinate carries the matched text as its name.
LoopFails(c, prefix) ==
    \E k \in Matching(c, prefix) :
        Cardinality(Named(c, Group0(c.coords[k].name))) # 1

LoopName(c, prefix) == Group0(c.coords[SetMax(Matching(c, prefix))].name)

LoopCoord(c, prefix) ==
    c.coords[CHOOSE k \in Named(c, LoopName(c, prefix)) : TRUE]

\* A variant whose loop keeps the first match.
get_ground_level_first_match(c) ==
    IF c = NoCube THEN GroundRaise("AttributeError")
    ELSE IF Matching(c, Height) # {}
    THEN LET co == c.coords[SetMin(Matching(c, Height))]
         IN  GroundOk(Extract(c, co.name, SetMin(Points(co))), co.name)
    ELSE IF Matching(c, Pressure) # {}
    THEN LET co == c.coords[SetMin(Matching(c, Pressure))]
         IN  GroundOk(Extract(c, co.name, SetMax(Points(co))), co.name)
    ELSE GroundOk(c, PyNone)

\* A variant that tests for a pressure coordinate before a height one.
get_ground_level_pressure_first(c) ==
    IF c = NoCube THEN GroundRaise("AttributeError")
    ELSE IF Matching(c, Pressure) # {}
    THEN IF LoopFails(c, Pressure) THEN GroundRaise("CoordinateNotFoundError")
         ELSE GroundOk(Extract(c, LoopName(c, Pressure),
                               SetMax(Points(LoopCoord(c, Pressure)))),
                       LoopName(c, Pressure))
    ELSE IF Matching(c, Height) # {}
    THEN IF LoopFails(c, Height) THEN GroundRaise("CoordinateNotFoundError")
         ELSE GroundOk(Extract(c, LoopName(c, Height),
                               SetMin(Points(LoopCoord(c, Height)))),
                       LoopName(c, Height))
    ELSE GroundOk(c, PyNone)

\* Lines 42-62.  None has no coords(): AttributeError.
get_ground_level(c) ==
    IF c = NoCube THEN GroundRaise("AttributeError")
    ELSE IF Matching(c, Height) # {}
    THEN IF LoopFails(c, Height) THEN GroundRaise("CoordinateNotFoundError")
         ELSE GroundOk(Extract(c, LoopName(c, Height),
                               SetMin(Points(LoopCoord(c, Height)))),
                       LoopName(c, Height))
    ELSE IF Matching(c, Pressure) # {}
    THEN IF LoopFails(c, Pressure) THEN GroundRaise("CoordinateNotFoundError")
         ELSE GroundOk(Extract(c, LoopName(c, Pressure),
                               SetMax(Points(LoopCoord(c, Pressure)))),
                       LoopName(c, Pressure))
    ELSE GroundOk(c, PyNone)

----------------------------------------------------------------------------
(* The cubes the level selector is run on *)

MaxCoords == 3

\* Coordinate names (one line each): two that start with "height", two that
\* start with "pressure", one that holds "pressure" but does not start
\* with it.
NamePool ==
    { Height,
      <<"h","e","i","g","h","t","_","a","b","o","v","e","_","m","e","a","n","_","s","e","a","_","l","e","v","e","l">>,
      Pressure,
      <<"p","r","e","s","s","u","r","e","_","l","e","v","e","l">>,
      <<"a","i","r","_","p","r","e","s","s","u","r","e">> }

\* The points of a coordinate along a vertical dimension of two levels, and
\* of a scalar coordinate.
LevelPoints == { <<1, 2>>, <<2, 1>>, <<2, 2>> }
ScalarPoints == { <<1>>, <<2>> }

CoordPool ==
    { [name |-> nm, onZ |-> TRUE, points |-> pts] : nm \in NamePool, pts \in LevelPoints }
    \cup
    { [name |-> nm, onZ |-> FALSE, points |-> pts] : nm \in NamePool, pts \in ScalarPoints }

EmptyCube == [coords |-> <<>>, levels |-> <<1, 2>>]

InitLevel ==
    /\ cube = EmptyCube
    /\ ground = NoGround
    /\ fname = <<>>
    /\ info = NotCalled
    /\ g_fname = <<>>
    /\ DriverIdle

\* The caller's cube: up to MaxCoords coordinates, no two of them with the
\* same name, in any order.
AddCoord ==
    /\ ground.kind = "none"
    /\ Len(cube.coords) < MaxCoords
    /\ \E co \in CoordPool :
          /\ Named(cube, co.name) = {}
          /\ cube' = [cube EXCEPT !.coords = Append(@, co)]
    /\ UNCHANGED <<ground, parse, driver>>

\* Lines 117 and 119: the call of get_ground_level.
CallGetGroundLevel ==
    /\ ground.kind = "none"
    /\ ground' = get_ground_level(cube)
    /\ UNCHANGED <<cube, parse, driver>>

NextLevel == AddCoord \/ CallGetGroundLevel

SpecLevel == InitLevel /\ [][NextLevel]_vars

----------------------------------------------------------------------------
(* Properties of get_ground_level *)

LevelCalled == ground.kind # "none"

\* The levels of the argument where coordinate k holds the value v.
LevelsHolding(k, v) ==
    IF cube.coords[k].onZ
    THEN { cube.levels[i] : i \in { i \in 1..Len(cube.levels) :
                                      cube.coords[k].points[i] = v } }
    ELSE { cube.levels[i] : i \in 1..Len(cube.levels) }

\* The result is the argument cut to the levels where coordinate k holds v,
\* returned with that coordinate's name.
SlicedAt(k, v) ==
    /\ ground.kind = "ok"
    /\ ground.name = cube.coords[k].name
    /\ Len(ground.cube.coords) = Len(cube.coords)
    /\ \A j \in 1..Len(cube.coords) :
          /\ ground.cube.coords[j].name = cube.coords[j].name
          /\ Points(ground.cube.coords[j]) \subseteq Points(cube.coords[j])
    /\ Points(ground.cube.coords[k]) = {v}
    /\ { ground.cube.levels[i] : i \in 1..Len(ground.cube.levels) } = LevelsHolding(k, v)
    /\ \A a, b \in 1..Len(ground.cube.levels) :
          a < b => ground.cube.levels[a] < ground.cube.levels[b]

\* C4: if a coordinate name starts with "height" the result is the field at
\* the minimum of such a coordinate, with its name, whether or not a
\* "pressure" coordinate is present; else if a name starts with "pressure"
\* the field at the maximum of such a coordinate, with its name; else the
\* field unchanged and no name.
C4_FirstMatchingCategory ==
    LevelCalled =>
        IF Matching(cube, Height) # {}
        THEN \E k \in Matching(cube, Height) :
                 SlicedAt(k, SetMin(Points(cube.coords[k])))
        ELSE IF Matching(cube, Pressure) # {}
        THEN \E k \in Matching(cube, Pressure) :
                 SlicedAt(k, SetMax(Points(cube.coords[k])))
        ELSE ground = GroundOk(cube, PyNone)

\* C4's case: a cube with a height and a pressure coordinate along the
\* vertical dimension, whose lowest height and highest pressure are at
\* different levels, has been cut at its lowest height.
C4_Witness ==
    /\ ground.kind = "ok"
    /\ StartsWith(ground.name, Height)
    /\ \E h \in Matching(cube, Height), q \in Matching(cube, Pressure) :
          /\ cube.coords[h].points = <<1, 2>>
          /\ cube.coords[q].points = <<1, 2>>
          /\ cube.coords[h].onZ /\ cube.coords[q].onZ
          /\ ground.cube.levels = <<1>>

\* C9: when several names match the prefix in use ("height", or "pressure"
\* when no name starts with "height"), the slice is taken on, and the name
\* returned is that of, the last matching coordinate in iteration order.
C9_LastMatchWins ==
    LevelCalled =>
        /\ Matching(cube, Height) # {}
              => LET k == SetMax(Matching(cube, Height))
                 IN  SlicedAt(k, SetMin(Points(cube.coords[k])))
        /\ (Matching(cube, Height) = {} /\ Matching(cube, Pressure) # {})
              => LET k == SetMax(Matching(cube, Pressure))
                 IN  SlicedAt(k, SetMax(Points(cube.coords[k])))

\* C9's case: two height coordinates whose minima lie at different levels;
\* the cut is where the later one is lowest.
C9_Witness ==
    /\ ground.kind = "ok"
    /\ Cardinality(Matching(cube, Height)) = 2
    /\ cube.coords[SetMin(Matching(cube, Height))].points = <<1, 2>>
    /\ cube.coords[SetMax(Matching(cube, Height))].points = <<2, 1>>
    /\ ground.cube.levels = <<2>>

----------------------------------------------------------------------------
(* get_uk_global_pairs: the library calls *)

Param == "air_temperature"

CubeOk(c) == [kind |-> "ok", cube |-> c]
CubeRaise(class) == [kind |-> class, cube |-> PyNoneCube]

\* [c.name() for c in cubes].index(param): the first position of param, or
\* ValueError (list.index) when no cube of the list carries that name.
IndexOfParam(cubes) ==
    IF \E k \in 1..Len(cubes) : cubes[k].name = Param
    THEN [kind |-> "ok",
          at |-> CHOOSE k \in 1..Len(cubes) :
                    cubes[k].name = Param /\ \A j \in 1..(k - 1) : cubes[j].name # Param]
    ELSE [kind |-> "ValueError", at |-> 0]

\* Line 113: coord('time') raises CoordinateNotFoundError (a KeyError) on a
\* cube without a time coordinate; points[-1] is its last point, and the
\* extract keeps that time alone.
LatestTime(c) ==
    IF c.times = <<>> THEN CubeRaise("CoordinateNotFoundError")
    ELSE CubeOk([c EXCEPT !.times = <<c.times[Len(c.times)]>>])

\* Line 114: extract gives None when the cube has no such time.
AtTime(c, t) ==
    IF \E k \in 1..Len(c.times) : c.times[k] = t
    THEN [c EXCEPT !.times = <<t>>]
    ELSE PyNoneCube

\* cube.remove_coord(name)
RECURSIVE Without(_, _)
Without(coords, name) ==
    IF coords = <<>> THEN <<>>
    ELSE IF Head(coords).name = name THEN Without(Tail(coords), name)
    ELSE <<Head(coords)>> \o Without(Tail(coords), name)

\* Lines 117-118 and 119-120: get_ground_level, then the coordinate it names
\* is removed (None is falsy: nothing to remove).
GroundOf(c) ==
    LET r == get_ground_level(IF c = PyNoneCube THEN NoCube ELSE c.field)
    IN  IF r.kind # "ok" THEN CubeRaise(r.kind)
        ELSE IF r.name = PyNone THEN CubeOk([c EXCEPT !.field = r.cube])
        ELSE CubeOk([c EXCEPT !.field =
                        [r.cube EXCEPT !.coords = Without(r.cube.coords, r.name)]])

\* Lines 65-82: coord('grid_latitude') raises CoordinateNotFoundError on a
\* cube without the rotated coordinates; coord_system() returns None on a
\* cube without a coordinate system, and reading a pole parameter from None
\* raises AttributeError; else a copy on plain latitude and longitude.
unrotate(uk, g) ==
    IF ~uk.hasGrid THEN CubeRaise("CoordinateNotFoundError")
    ELSE IF uk.cs # "RotatedGeogCS" THEN CubeRaise("AttributeError")
    ELSE CubeOk([uk EXCEPT !.hasGrid = FALSE, !.cs = "GeogCS"])

\* Lines 85-93: the part of the global cube within the regional bounds.
get_uk_from_global(g, uk) == CubeOk([g EXCEPT !.cs = "GeogCS"])

\* A variant of line 106 that only tests that there are global files.
InGFiles_nonempty(name, files) == files # {}

\* Line 106: g_fname in g_files.
InGFiles(name, files) == name \in files

\* A variant of the except clause that also names ValueError.
Caught_with_ValueError == {"IndexError", "AttributeError", "ValueError"}

\* Line 127: except (IndexError, AttributeError).  None of the classes
\* raised here is a subclass of either (CoordinateNotFoundError is a
\* KeyError; OSError and ValueError stand alone).
Caught == {"IndexError", "AttributeError"}

\* A variant of list.append that puts the new element first.
AppendTo_front(list, e) == <<e>> \o list

\* Lines 125 and 126: list.append.
AppendTo(list, e) == Append(list, e)

\* A variant of line 126 that leaves out a cube of a file already listed.
AppendGlobal_once(list, e) ==
    IF \E k \in 1..Len(list) : list[k].file = e.file THEN list ELSE Append(list, e)

\* Line 126.
AppendGlobal(list, e) == AppendTo(list, e)

----------------------------------------------------------------------------
(* get_uk_global_pairs: the files *)

MaxFiles == 3

\* The global file of the convention for date, hour, member and lead.
GName(date, h, m, l) ==
    GlobalPrefix \o date \o <<"_">> \o PadDigits(h, 2) \o <<"_">> \o PadDigits(m, 2)
        \o <<"_">> \o PadDigits(l, 3) \o NcSuffix

\* Regional names: two whose global file may exist, one of run hour 0, one
\* with too few segments ('readme.txt'), one with a run hour that is no
\* integer.
UkPool ==
    { UkName(Date0, 6, 0, 3),
      UkName(Date0, 9, 1, 0),
      UkName(Date0, 0, 0, 3),
      <<"r","e","a","d","m","e",".","t","x","t">>,
      UkPrefix \o Date0 \o <<"_","x","x","_","0","0","_","0","0","3">> \o NcSuffix }

GPool == { GName(Date0, 3, 0, 6), GName(Date0, 6, 1, 3) }

HeightCube ==
    [coords |-> << [name |-> Height, onZ |-> TRUE, points |-> <<2, 1>>] >>,
     levels |-> <<1, 2>>]

PressureCube ==
    [coords |-> << [name |-> Pressure, onZ |-> TRUE, points |-> <<2, 1>>] >>,
     levels |-> <<1, 2>>]

UkCube ==
    [name |-> Param, field |-> HeightCube, times |-> <<1, 2>>,
     hasGrid |-> TRUE, cs |-> "RotatedGeogCS"]

GCube ==
    [name |-> Param, field |-> PressureCube, times |-> <<2, 3>>,
     hasGrid |-> FALSE, cs |-> "GeogCS"]

OtherCube == [UkCube EXCEPT !.name = "x_wind"]

\* What a regional file may hold: the parameter on a rotated grid (after
\* another cube), no cube of that name, the parameter without a coordinate
\* system, without the rotated coordinates, without a time coordinate, or
\* without a vertical coordinate.
UkContents ==
    { <<OtherCube, UkCube>>,
      <<OtherCube>>,
      << [UkCube EXCEPT !.cs = "None"] >>,
      << [UkCube EXCEPT !.hasGrid = FALSE, !.cs = "GeogCS"] >>,
      << [UkCube EXCEPT !.times = <<>>] >>,
      << [UkCube EXCEPT !.field = EmptyCube] >> }

\* What a global file may hold: the parameter at the regional time, no
\* cube of that name, or the parameter at other times only.
GContents ==
    { <<GCube>>,
      << [OtherCube EXCEPT !.hasGrid = FALSE, !.cs = "GeogCS"] >>,
      << [GCube EXCEPT !.times = <<0, 3>>] >> }

----------------------------------------------------------------------------
(* get_uk_global_pairs: the loop *)

Init ==
    /\ uk_files \in UNION { [1..n -> UkPool] : n \in 0..MaxFiles }
    /\ g_files \in SUBSET GPool
    /\ idx = 0
    /\ pc = "for"
    /\ g_cubes = <<>>
    /\ uk_cubes = <<>>
    /\ uk_cube = PyNoneCube
    /\ g_cube = PyNoneCube
    /\ uk_unrotate = PyNoneCube
    /\ g_cube_uk = PyNoneCube
    /\ uks = <<>>
    /\ gs = <<>>
    /\ loads = <<>>
    /\ raised = "none"
    /\ failure = NoFailure
    /\ fname = <<>>
    /\ info = NotCalled
    /\ g_fname = <<>>
    /\ cube = NoCube
    /\ ground = NoGround

\* An exception of the given class leaves the try block at the given line:
\* the except clause passes on the classes it names and the loop goes on;
\* any other class ends the call.
Throw(line, class) ==
    /\ failure' = [at |-> line, class |-> class, src |-> idx]
    /\ IF class \in Caught
       THEN pc' = "for" /\ raised' = raised
       ELSE pc' = "raised" /\ raised' = class

\* Line 101: the next regional filename.
ForNext ==
    /\ pc = "for"
    /\ idx < Len(uk_files)
    /\ idx' = idx + 1
    /\ fname' = uk_files[idx + 1]
    /\ pc' = "get_info"
    /\ UNCHANGED <<info, g_fname, level, uk_files, g_files, g_cubes, uk_cubes,
                   uk_cube, g_cube, uk_unrotate, g_cube_uk, uks, gs, loads,
                   raised, failure>>

\* Line 129: the loop is over.
Return ==
    /\ pc = "for"
    /\ idx = Len(uk_files)
    /\ pc' = "return"
    /\ UNCHANGED <<parse, level, uk_files, g_files, idx, g_cubes, uk_cubes,
                   uk_cube, g_cube, uk_unrotate, g_cube_uk, uks, gs, loads,
                   raised, failure>>

\* Line 102, outside the try block: a failure of get_info ends the call.
GetInfo ==
    /\ pc = "get_info"
    /\ info' = get_info(fname)
    /\ IF info'.kind = "ok"
       THEN pc' = "format" /\ UNCHANGED <<raised, failure>>
       ELSE /\ pc' = "raised"
            /\ raised' = info'.kind
            /\ failure' = [at |-> "get_info", class |-> info'.kind, src |-> idx]
    /\ UNCHANGED <<fname, g_fname, level, uk_files, g_files, idx, g_cubes,
                   uk_cubes, uk_cube, g_cube, uk_unrotate, g_cube_uk, uks, gs,
                   loads>>

\* Lines 103-104.
Format ==
    /\ pc = "format"
    /\ g_fname' = GlobalName(info.val)
    /\ pc' = "if"
    /\ UNCHANGED <<fname, info, level, uk_files, g_files, idx, g_cubes,
                   uk_cubes, uk_cube, g_cube, uk_unrotate, g_cube_uk, uks, gs,
                   loads, raised, failure>>

\* Line 106.
IfInGFiles ==
    /\ pc = "if"
    /\ pc' = IF InGFiles(g_fname, g_files) THEN "load_g" ELSE "for"
    /\ UNCHANGED <<parse, level, uk_files, g_files, idx, g_cubes, uk_cubes,
                   uk_cube, g_cube, uk_unrotate, g_cube_uk, uks, gs, loads,
                   raised, failure>>

\* Line 108: iris.load(g_path + g_fname) gives what the file holds.
LoadGlobal ==
    /\ pc = "load_g"
    /\ loads' = Append(loads, [src |-> idx, dir |-> "g_path", file |-> g_fname])
    /\ \E held \in GContents : g_cubes' = held
    /\ pc' = "load_uk"
    /\ UNCHANGED <<parse, level, uk_files, g_files, idx, uk_cubes, uk_cube,
                   g_cube, uk_unrotate, g_cube_uk, uks, gs, raised, failure>>

\* Line 108, the file cannot be read: OSError.
LoadGlobalFails ==
    /\ pc = "load_g"
    /\ loads' = Append(loads, [src |-> idx, dir |-> "g_path", file |-> g_fname])
    /\ Throw("load_g", "OSError")
    /\ UNCHANGED <<parse, level, uk_files, g_files, idx, g_cubes, uk_cubes,
                   uk_cube, g_cube, uk_unrotate, g_cube_uk, uks, gs>>

\* Line 109: iris.load(uk_path + uk_fname).
LoadRegional ==
    /\ pc = "load_uk"
    /\ loads' = Append(loads, [src |-> idx, dir |-> "uk_path", file |-> fname])
    /\ \E held \in UkContents : uk_cubes' = held
    /\ pc' = "index_uk"
    /\ UNCHANGED <<parse, level, uk_files, g_files, idx, g_cubes, uk_cube,
                   g_cube, uk_unrotate, g_cube_uk, uks, gs, raised, failure>>

\* Line 109, the file cannot be read: OSError.
LoadRegionalFails ==
    /\ pc = "load_uk"
    /\ loads' = Append(loads, [src |-> idx, dir |-> "uk_path", file |-> fname])
    /\ Throw("load_uk", "OSError")
    /\ UNCHANGED <<parse, level, uk_files, g_files, idx, g_cubes, uk_cubes,
                   uk_cube, g_cube, uk_unrotate, g_cube_uk, uks, gs>>

\* Line 110.
IndexRegional ==
    /\ pc = "index_uk"
    /\ LET at == IndexOfParam(uk_cubes)
       IN  IF at.kind = "ok"
           THEN /\ uk_cube' = uk_cubes[at.at]
                /\ pc' = "index_g"
                /\ UNCHANGED <<raised, failure>>
           ELSE Throw("index_uk", at.kind) /\ UNCHANGED uk_cube
    /\ UNCHANGED <<parse, level, uk_files, g_files, idx, g_cubes, uk_cubes,
                   g_cube, uk_unrotate, g_cube_uk, uks, gs, loads>>

\* Line 111.
IndexGlobal ==
    /\ pc = "index_g"
    /\ LET at == IndexOfParam(g_cubes)
       IN  IF at.kind = "ok"
           THEN /\ g_cube' = g_cubes[at.at]
                /\ pc' = "time_uk"
                /\ UNCHANGED <<raised, failure>>
           ELSE Throw("index_g", at.kind) /\ UNCHANGED g_cube
    /\ UNCHANGED <<parse, level, uk_files, g_files, idx, g_cubes, uk_cubes,
                   uk_cube, uk_unrotate, g_cube_uk, uks, gs, loads>>

\* Line 113.
TimeRegional ==
    /\ pc = "time_uk"
    /\ LET r == LatestTime(uk_cube)
       IN  IF r.kind = "ok"
           THEN /\ uk_cube' = r.cube
                /\ pc' = "time_g"
                /\ UNCHANGED <<raised, failure>>
           ELSE Throw("time_uk", r.kind) /\ UNCHANGED uk_cube
    /\ UNCHANGED <<parse, level, uk_files, g_files, idx, g_cubes, uk_cubes,
                   g_cube, uk_unrotate, g_cube_uk, uks, gs, loads>>

\* Lines 114-115: the global cube at the regional cube's time, or None.
TimeGlobal ==
    /\ pc = "time_g"
    /\ g_cube' = AtTime(g_cube, uk_cube.times[Len(uk_cube.times)])
    /\ pc' = "level_uk"
    /\ UNCHANGED <<parse, level, uk_files, g_files, idx, g_cubes, uk_cubes,
                   uk_cube, uk_unrotate, g_cube_uk, uks, gs, loads, raised,
                   failure>>

\* Lines 117-118.
LevelRegional ==
    /\ pc = "level_uk"
    /\ LET r == GroundOf(uk_cube)
       IN  IF r.kind = "ok"
           THEN /\ uk_cube' = r.cube
                /\ pc' = "level_g"
                /\ UNCHANGED <<raised, failure>>
           ELSE Throw("level_uk", r.kind) /\ UNCHANGED uk_cube
    /\ UNCHANGED <<parse, level, uk_files, g_files, idx, g_cubes, uk_cubes,
                   g_cube, uk_unrotate, g_cube_uk, uks, gs, loads>>

\* Lines 119-120.
LevelGlobal ==
    /\ pc = "level_g"
    /\ LET r == GroundOf(g_cube)
       IN  IF r.kind = "ok"
           THEN /\ g_cube' = r.cube
                /\ pc' = "unrotate"
                /\ UNCHANGED <<raised, failure>>
           ELSE Throw("level_g", r.kind) /\ UNCHANGED g_cube
    /\ UNCHANGED <<parse, level, uk_files, g_files, idx, g_cubes, uk_cubes,
                   uk_cube, uk_unrotate, g_cube_uk, uks, gs, loads>>

\* Line 122.
Unrotate ==
    /\ pc = "unrotate"
    /\ LET r == unrotate(uk_cube, g_cube)
       IN  IF r.kind = "ok"
           THEN /\ uk_unrotate' = r.cube
                /\ pc' = "crop"
                /\ UNCHANGED <<raised, failure>>
           ELSE Throw("unrotate", r.kind) /\ UNCHANGED uk_unrotate
    /\ UNCHANGED <<parse, level, uk_files, g_files, idx, g_cubes, uk_cubes,
                   uk_cube, g_cube, g_cube_uk, uks, gs, loads>>

\* Line 123.
Crop ==
    /\ pc = "crop"
    /\ LET r == get_uk_from_global(g_cube, uk_unrotate)
       IN  IF r.kind = "ok"
           THEN /\ g_cube_uk' = r.cube
                /\ pc' = "append_uk"
                /\ UNCHANGED <<raised, failure>>
           ELSE Throw("crop", r.kind) /\ UNCHANGED g_cube_uk
    /\ UNCHANGED <<parse, level, uk_files, g_files, idx, g_cubes, uk_cubes,
                   uk_cube, g_cube, uk_unrotate, uks, gs, loads>>

\* Line 125.  An output entry is the cube's origin: the position of the
\* regional filename in uk_files and the file the cube was loaded from.
AppendRegional ==
    /\ pc = "append_uk"
    /\ uks' = AppendTo(uks, [src |-> idx, file |-> fname])
    /\ pc' = "append_g"
    /\ UNCHANGED <<parse, level, uk_files, g_files, idx, g_cubes, uk_cubes,
                   uk_cube, g_cube, uk_unrotate, g_cube_uk, gs, loads, raised,
                   failure>>

\* Line 126.
AppendGlobalCube ==
    /\ pc = "append_g"
    /\ gs' = AppendGlobal(gs, [src |-> idx, file |-> g_fname])
    /\ pc' = "for"
    /\ UNCHANGED <<parse, level, uk_files, g_files, idx, g_cubes, uk_cubes,
                   uk_cube, g_cube, uk_unrotate, g_cube_uk, uks, loads, raised,
                   failure>>

Next ==
    \/ ForNext
    \/ Return
    \/ GetInfo
    \/ Format
    \/ IfInGFiles
    \/ LoadGlobal
    \/ LoadGlobalFails
    \/ LoadRegional
    \/ LoadRegionalFails
    \/ IndexRegional
    \/ IndexGlobal
    \/ TimeRegional
    \/ TimeGlobal
    \/ LevelRegional
    \/ LevelGlobal
    \/ Unrotate
    \/ Crop
    \/ AppendRegional
    \/ AppendGlobalCube

Spec == Init /\ [][Next]_vars

----------------------------------------------------------------------------
(* Properties of get_uk_global_pairs *)

\* The positions in uk_files of the cubes of an output list.
Sources(list) == { list[k].src : k \in 1..Len(list) }

NoOutputFor(j) == j \notin Sources(uks) /\ j \notin Sources(gs)

\* C5 as stated: a parameter not found in a loaded collection (lines 110
\* and 111), or a failure of level extraction (lines 117-120), is caught:
\* the call does not end with it, and the pair adds nothing to the outputs.
C5_LookupFailureCaught ==
    failure.at \in {"index_uk", "index_g", "level_uk", "level_g"}
        => pc # "raised" /\ NoOutputFor(failure.src)

\* C6 as stated: a failure of get_info, of loading, of narrowing to the
\* timestamp, of reprojecting or of cropping always ends the call.
C6_OtherFailuresPropagate ==
    failure.at \in {"get_info", "load_g", "load_uk", "time_uk", "unrotate", "crop"}
        => pc = "raised"

\* C6 as the code has it: inside the try block a failure is suppressed
\* exactly when its class is IndexError or AttributeError, at whatever line
\* it is raised (reprojection included), and its pair adds nothing to the
\* outputs; a failure of any other class, and any failure of get_info, ends
\* the call with that class.
C6_SuppressedByClass ==
    failure # NoFailure =>
        /\ (pc = "raised") <=>
              (failure.at = "get_info" \/ failure.class \notin {"IndexError", "AttributeError"})
        /\ pc = "raised" => raised = failure.class
        /\ pc # "raised" => raised = "none" /\ NoOutputFor(failure.src)

\* C6's case: a regional cube without a coordinate system failed in
\* unrotate, and the call went on to return.
C6_Witness ==
    /\ pc = "return"
    /\ failure.at = "unrotate"
    /\ failure.class = "AttributeError"

\* For each regional filename of the pool: the global filename written from
\* what get_info returns for it, or no name when get_info fails.
ExpectedGlobal ==
    [f \in UkPool |->
        IF get_info(f).kind = "ok" THEN GlobalName(get_info(f).val) ELSE <<>>]

\* The regional filename at position j parses, and its global filename is
\* not among g_files.
GlobalAbsent(j) ==
    /\ ExpectedGlobal[uk_files[j]] # <<>>
    /\ ExpectedGlobal[uk_files[j]] \notin g_files

\* C7: a regional filename whose global filename is not in g_files raises
\* nothing, loads nothing and adds nothing to either output list, and the
\* loop goes on.
C7_AbsentGlobalSkipped ==
    \A j \in 1..idx :
        GlobalAbsent(j) =>
            /\ failure.src # j
            /\ \A k \in 1..Len(loads) : loads[k].src # j
            /\ NoOutputFor(j)
            /\ j = idx => pc \in {"get_info", "format", "if", "for", "return"}

\* C7's case: a filename without its global file was passed over, and a
\* later pair was loaded and appended.
C7_Witness ==
    /\ pc = "return"
    /\ \E j \in 1..idx : GlobalAbsent(j) /\ \E k \in Sources(uks) : k > j

\* C8: both output lists are in input order: the cubes of an earlier
\* regional filename come before those of a later one, and each regional
\* cube is that of the filename at its position.
C8_InputOrder ==
    /\ \A a, b \in 1..Len(uks) : a < b => uks[a].src < uks[b].src
    /\ \A a, b \in 1..Len(gs) : a < b => gs[a].src < gs[b].src
    /\ \A k \in 1..Len(uks) : uks[k].src \in 1..idx /\ uks[k].file = uk_files[uks[k].src]

\* C8's case: the first and the third filename gave a pair, the second was
\* skipped.
C8_Witness ==
    /\ pc = "return"
    /\ Len(uks) = 2 /\ uks[1].src = 1 /\ uks[2].src = 3
    /\ Len(gs) = 2 /\ gs[1].src = 1 /\ gs[2].src = 3

\* C10: after every iteration (skipped, caught or complete) the two output
\* lists have the same length, and the entries at one index come from the
\* same regional filename: the global cube is that of the file named after
\* the regional one.
C10_PairsAligned ==
    pc \in {"for", "return"} =>
        /\ Len(uks) = Len(gs)
        /\ \A k \in 1..Len(uks) :
              /\ k <= Len(gs)
              /\ uks[k].src = gs[k].src
              /\ uks[k].file \in UkPool
              /\ gs[k].file = ExpectedGlobal[uks[k].file]

\* C10's case: one pair is in the lists and the iteration after it ended in
\* a caught AttributeError.
C10_Witness ==
    /\ pc = "for"
    /\ failure.class = "AttributeError"
    /\ failure.src = idx
    /\ Len(uks) >= 1
    /\ Len(gs) = Len(uks)

====
